---- MODULE Spec2Model ----
(***************************************************************************)
(* The collection -> translation -> analysis pipeline of osint-analyser.   *)
(*                                                                         *)
(* The record store is the five SQLAlchemy tables of shared/models.py (ids *)
(* are the autoincrement positions in the tables), every Database method   *)
(* is one transaction (session_scope), the queue is the Celery broker seen *)
(* as a bag of task messages, and each worker process runs                 *)
(* translate_content or analyse_content one transaction at a time.         *)
(*                                                                         *)
(* Environment assumptions: the database is reachable (connect_db          *)
(* succeeds) and importing a provider module that is deployed succeeds.    *)
(* AnalysisRequirement rows and the enabled flags are set out-of-band by   *)
(* an operator.                                                            *)
(***************************************************************************)
EXTENDS Naturals, Sequences, FiniteSets, Bags, TLC

\* ------------------------------------------------------------------------ *\
\* Bounds of the model
MaxSources == 2
MaxContent == 1
MaxReqs == 2
MaxResults == 2
MaxQueue == 1
MaxCollectors == 3

\* ------------------------------------------------------------------------ *\
\* Values
NULL == "NULL"                       \* Python None / SQL NULL
DICT == "{dict}"                     \* a provider value that is not a string
TelegramId == 1                      \* collector_id of the Telegram collector
CollectorIds == {TelegramId, 2}      \* self.collector_id of the collectors
Uids == {"a", "b"}                   \* source uids (channel ids)
MessageTexts == {NULL, "", "fr"}     \* event.message.message
Translations == {"en1", "en2"}       \* non-empty translations
Prompts == {"", "p"}                 \* AnalysisRequirement.prompt
LlmIds == {1}                        \* AnalysisRequirement.llm_id
AllLlmIds == {1, 2}                  \* llm_id where requirements differ in it
ShortNames == {"telegram", "rss"}    \* Collector.short_name of the collector types
Procs == {"c1", "c2"}                \* collector processes
Worker1 == "w1"
Workers == {Worker1, "w2"}           \* Celery worker processes
ServiceId == "gpt3.5"                \* the identifier both stages resolve
GPTTranslate == "GPTTranslate"
DeepLTranslate == "DeepLTranslate"
GPTAnalyse == "GPTAnalyse"
TranslationModules == {"gpt", "deepl"}
AnalysisModules == {"gpt"}

\* Python truthiness of a text value: None and '' are falsy
Falsy(x) == x = NULL \/ x = ""

VARIABLES
    sources,        \* table source: Seq of [collector_id, uid, enabled]
    contents,       \* table content
    requirements,   \* table analysis_requirement
    results,        \* table analysis_result
    queue,          \* broker: bag of [kind, cid, origin]
    deployed,       \* provider module files present: [translation, analysis]
    registry,       \* per process: TranslationService._registry, AnalysisService._registry
    worker,         \* per worker process: position and locals of the running task
    last,           \* the operation the last step completed, if it completed one
    collectors,     \* table collector: Seq of [short_name, enabled]
    procs           \* per collector process: position, self.collector_id, locals

vars == <<sources, contents, requirements, results, queue, deployed, registry,
          worker, last, collectors, procs>>

\* ------------------------------------------------------------------------ *\
\* Rows (shared/models.py)

SourceModel(cid, uid) ==
    [collector_id |-> cid, uid |-> uid, enabled |-> TRUE]

ContentModel(source_id, text) ==
    [source_id |-> source_id, original_text |-> text, translated_text |-> NULL,
     translated |-> FALSE, analysed |-> FALSE]

AnalysisRequirementModel(source_id, llm_id, prompt) ==
    [source_id |-> source_id, llm_id |-> llm_id, prompt |-> prompt,
     enabled |-> TRUE]

AnalysisResultModel(req_id, content_id, output) ==
    [req_id |-> req_id, content_id |-> content_id, output |-> output]

\* Tasks on the broker
Task(kind, cid, origin) == [kind |-> kind, cid |-> cid, origin |-> origin]
NoTask == Task("none", 0, "none")

\* Mutant of send_task: the message is sent twice
send_task_twice(q, kind, cid, origin) ==
    q (+) SetToBag({Task(kind, cid, origin)}) (+) SetToBag({Task(kind, cid, origin)})

\* send_task: one more message on the broker
send_task(q, kind, cid, origin) == q (+) SetToBag({Task(kind, cid, origin)})

\* ------------------------------------------------------------------------ *\
\* Queries of the record store

\* Mutant of FirstSource: the collector is not filtered on
FirstSource_any_collector(cid, uid) ==
    LET m == {i \in 1..Len(sources) : sources[i].uid = uid}
    IN  IF m = {} THEN 0 ELSE CHOOSE i \in m : \A j \in m : i <= j

\* session.query(SourceModel).filter_by(uid, collector_id).first(): the id of
\* the first matching row, 0 for None
FirstSource(cid, uid) ==
    LET m == {i \in 1..Len(sources) :
                 sources[i].collector_id = cid /\ sources[i].uid = uid}
    IN  IF m = {} THEN 0 ELSE CHOOSE i \in m : \A j \in m : i <= j

ContentExists(c) == c \in 1..Len(contents)

\* Mutant of set_content_attribute: the filter on the id is missing, the
\* attribute is assigned on every row
set_content_attribute_all_rows(tbl, c, attr, value) ==
    [i \in 1..Len(tbl) |-> [tbl[i] EXCEPT ![attr] = value]]

\* Mutant of set_content_attribute: the update is not committed
set_content_attribute_lost(tbl, c, attr, value) == tbl

\* Mutant of set_content_attribute: an attribute that is set is not written
set_content_attribute_if_null(tbl, c, attr, value) ==
    [tbl EXCEPT ![c] = [@ EXCEPT ![attr] = IF @ = NULL THEN value ELSE @]]

\* Mutant of set_content_attribute: a second write clears the attribute
set_content_attribute_toggle(tbl, c, attr, value) ==
    [tbl EXCEPT ![c] = [@ EXCEPT ![attr] = IF @ = NULL THEN value ELSE NULL]]

\* Mutant of set_content_attribute: the row's original_text is written too
set_content_attribute_row(tbl, c, attr, value) ==
    [tbl EXCEPT ![c] = [@ EXCEPT ![attr] = value, !.original_text = value]]

\* Database.set_content_attribute on an existing row with an attribute the
\* row has: only the named attribute is assigned
set_content_attribute(tbl, c, attr, value) ==
    [tbl EXCEPT ![c] = [@ EXCEPT ![attr] = value]]

\* Mutant of save_analysis_result: the earlier rows are deleted, the table
\* keeps the latest result only
save_analysis_result_only_latest(tbl, content_id, req_id, output) ==
    <<AnalysisResultModel(req_id, content_id, output)>>

\* Mutant of save_analysis_result: a row of the same content and requirement
\* is overwritten instead of a new row being added
save_analysis_result_upsert(tbl, content_id, req_id, output) ==
    LET m == {i \in 1..Len(tbl) :
                 tbl[i].content_id = content_id /\ tbl[i].req_id = req_id}
    IN  IF m = {}
        THEN Append(tbl, AnalysisResultModel(req_id, content_id, output))
        ELSE [i \in 1..Len(tbl) |->
                 IF i \in m THEN AnalysisResultModel(req_id, content_id, output)
                 ELSE tbl[i]]

\* Database.save_analysis_result: session.add of a new row, whose id is the
\* next position of the table
save_analysis_result(tbl, content_id, req_id, output) ==
    Append(tbl, AnalysisResultModel(req_id, content_id, output))

\* Mutant of get_source_enabled: the flag is not consulted
get_source_enabled_always(source_id) == TRUE

\* Database.get_source_attribute(source_id, 'enabled') of an existing source
get_source_enabled(source_id) == sources[source_id].enabled

\* Database.get_analysis_requirements: the enabled rows of the source, in
\* table order, as a sequence of requirement ids
RECURSIVE EnabledFrom(_, _)
EnabledFrom(source_id, i) ==
    IF i > Len(requirements) THEN <<>>
    ELSE IF requirements[i].source_id = source_id /\ requirements[i].enabled
         THEN <<i>> \o EnabledFrom(source_id, i + 1)
         ELSE EnabledFrom(source_id, i + 1)

\* Mutant of get_analysis_requirements: the enabled flag is not filtered on
RECURSIVE AllFrom(_, _)
AllFrom(source_id, i) ==
    IF i > Len(requirements) THEN <<>>
    ELSE IF requirements[i].source_id = source_id
         THEN <<i>> \o AllFrom(source_id, i + 1)
         ELSE AllFrom(source_id, i + 1)

get_analysis_requirements_all(source_id) == AllFrom(source_id, 1)

\* Mutant of get_analysis_requirements: the source is not filtered on
RECURSIVE EnabledOfAnySource(_)
EnabledOfAnySource(i) ==
    IF i > Len(requirements) THEN <<>>
    ELSE IF requirements[i].enabled
         THEN <<i>> \o EnabledOfAnySource(i + 1)
         ELSE EnabledOfAnySource(i + 1)

get_analysis_requirements_any_source(source_id) == EnabledOfAnySource(1)

get_analysis_requirements(source_id) == EnabledFrom(source_id, 1)

\* ------------------------------------------------------------------------ *\
\* Service registries (workers/translation_service.py, analysis_service.py)

\* Mutant of register: an identifier keeps the class it was first given
register_first_wins(reg, uid, cls) ==
    [x \in (DOMAIN reg) \cup {uid} |-> IF x \in DOMAIN reg THEN reg[x] ELSE cls]

\* Mutant of register: registering a pair that is there removes it
register_toggle(reg, uid, cls) ==
    IF uid \in DOMAIN reg /\ reg[uid] = cls
    THEN [x \in (DOMAIN reg) \ {uid} |-> reg[x]]
    ELSE [x \in (DOMAIN reg) \cup {uid} |-> IF x = uid THEN cls ELSE reg[x]]

\* cls._registry[uid] = service_cls
register(reg, uid, cls) ==
    [x \in (DOMAIN reg) \cup {uid} |-> IF x = uid THEN cls ELSE reg[x]]

\* cls._registry.get(uid)
get_service(reg, uid) == IF uid \in DOMAIN reg THEN reg[uid] ELSE NULL

EmptyRegistry == [x \in {} |-> NULL]

\* load_translation_services: every deployed module of services/translation
\* is imported and registers its class (gpt.py:56, deepl.py:27)
load_translation_services(reg, mods) ==
    LET r1 == IF "gpt" \in mods THEN register(reg, ServiceId, GPTTranslate)
              ELSE reg
    IN  IF "deepl" \in mods THEN register(r1, "deepl", DeepLTranslate) ELSE r1

\* load_analysis_services: services/analysis/gpt.py:113
load_analysis_services(reg, mods) ==
    IF "gpt" \in mods THEN register(reg, ServiceId, GPTAnalyse) ELSE reg

\* ------------------------------------------------------------------------ *\
\* Providers: what a call can produce. A name in the Raises sets is the
\* exception the call raises, anything else is the value it returns.

TranslateRaises == {"ProviderError"}
AnalyseRaises == {"AnalysisException", "APICredentialsMissing"}

\* GPTTranslate.translate: None without an API key, an exception of the API
\* or of the JSON decoding, else data['translation'], whatever it holds.
\* DeepLTranslate.translate returns None on every path.
translate(cls) ==
    IF cls = GPTTranslate
    THEN {NULL, "", DICT} \cup Translations \cup TranslateRaises
    ELSE {NULL}

\* Mutant of analyse: the arguments are not validated
analyse_unvalidated(prompt, text) == {"out", DICT} \cup AnalyseRaises

\* GPTAnalyse.analyse: ValueError for a falsy prompt or text, else an
\* exception or response_json.get('analysis', {})
analyse(prompt, text) ==
    IF Falsy(prompt) \/ Falsy(text) THEN {"ValueError"}
    ELSE {"out", DICT} \cup AnalyseRaises

\* Mutant of Propagates: AnalysisException is caught and not raised again
Propagates_value_error(o) == o \in {"ValueError", "APICredentialsMissing"}

\* analyse_content lines 105-116: the exceptions of the provider call are
\* logged and raised again, and any other exception propagates by itself
Propagates(o) == o \in AnalyseRaises \cup {"ValueError"}

\* ------------------------------------------------------------------------ *\
\* Worker processes

\* A worker process: its position in the task and the task's locals, and what
\* the execution has done so far
IdleWorker ==
    [pc |-> "idle", task |-> NoTask, text |-> NULL, out |-> NULL,
     source_id |-> 0, reqs |-> <<>>, i |-> 0,
     wrote |-> 0,           \* commits of set_content_attribute in the execution
     sent |-> <<>>,         \* content ids it sent analyse-tasks for
     services |-> <<>>,     \* what get_service returned in each iteration
     calls |-> <<>>,        \* requirement ids it called the provider for
                            \* (0 for the call of the translation provider)
     saved |-> <<>>,        \* ids returned by save_analysis_result
     enabled_at |-> {}]     \* the source's enabled requirements when it read them

\* A worker that takes task t starts with fresh locals
Started(t) == [IdleWorker EXCEPT !.task = t]

Returns == {"True", "False", "None"}
Raised(r) == r \notin Returns \cup {"none"}

\* The record of a completed operation: a collector call (op, its arguments,
\* ret: the id it returned, 0 for None) or a task execution (op, the task,
\* result: what it returned or the exception it raised, text: the text it
\* read, out: what its last provider call produced, and what it did)
NoEvent ==
    [op |-> "none", collector_id |-> 0, uid |-> NULL, text |-> NULL, ret |-> 0,
     task |-> NoTask, result |-> "none", out |-> NULL, wrote |-> 0,
     sent |-> <<>>, services |-> <<>>, calls |-> <<>>, saved |-> <<>>,
     reqs |-> <<>>,
     enabled_at |-> {}]

Call(op, cid, uid, text, ret) ==
    [NoEvent EXCEPT !.op = op, !.collector_id = cid, !.uid = uid,
                    !.text = text, !.ret = ret]

\* Mutant of Finished: ContentNotFoundError is caught and None is returned
Finished_not_found_swallowed(me, r) ==
    [NoEvent EXCEPT !.op = me.task.kind, !.task = me.task,
                    !.result = IF r = "ContentNotFoundError" THEN "None" ELSE r,
                    !.text = me.text, !.out = me.out, !.wrote = me.wrote,
                    !.sent = me.sent,
                    !.services = me.services,
                    !.calls = me.calls, !.saved = me.saved,
                    !.reqs = [k \in 1..Len(me.reqs) |-> me.reqs[k].req_id],
                    !.enabled_at = me.enabled_at]

\* An execution ends: the task function returns r or raises r
Finished(me, r) ==
    [NoEvent EXCEPT !.op = me.task.kind, !.task = me.task, !.result = r,
                    !.text = me.text, !.out = me.out, !.wrote = me.wrote,
                    !.sent = me.sent,
                    !.services = me.services,
                    !.calls = me.calls, !.saved = me.saved,
                    !.reqs = [k \in 1..Len(me.reqs) |-> me.reqs[k].req_id],
                    !.enabled_at = me.enabled_at]

\* A collector process that is not running
DownProc == [pc |-> "down", short_name |-> NULL, collector_id |-> 0,
             uid |-> NULL, existing |-> 0]

Init ==
    /\ sources = <<>>
    /\ contents = <<>>
    /\ requirements = <<>>
    /\ results = <<>>
    /\ queue = EmptyBag
    /\ deployed \in {[translation |-> TranslationModules,
                       analysis |-> AnalysisModules],
                      [translation |-> {"deepl"}, analysis |-> {}]}
    /\ registry = [w \in Workers |->
                     [translation |-> EmptyRegistry, analysis |-> EmptyRegistry]]
    /\ worker = [w \in Workers |-> IdleWorker]
    /\ last = NoEvent
    /\ collectors = <<>>
    /\ procs = [p \in Procs |-> DownProc]

\* ------------------------------------------------------------------------ *\
\* Collector (collection/collector.py, collection/telegram.py)

\* Mutant of add_source: the row is added without the lookup
add_source_again(cid, uid) == Append(sources, SourceModel(cid, uid))

\* Collector.add_source: the table after the call
add_source(cid, uid) ==
    IF FirstSource(cid, uid) = 0 THEN Append(sources, SourceModel(cid, uid))
    ELSE sources

\* Collector.add_source: the new row's id, 0 (None) when the source exists
add_source_ret(cid, uid) ==
    IF FirstSource(cid, uid) = 0 THEN Len(sources) + 1 ELSE 0

\* Collector.add_content: the table after the call
add_content(cid, uid, text) ==
    IF FirstSource(cid, uid) = 0 THEN contents
    ELSE Append(contents, ContentModel(FirstSource(cid, uid), text))

\* Mutant of add_content_ret: an id is returned for an unknown source too
add_content_ret_unstored(cid, uid) == Len(contents) + 1

\* Mutant of add_content_ret: the new row's id is not returned
add_content_ret_none(cid, uid) == 0

\* Collector.add_content: the new content id, 0 (None) for an unknown source
add_content_ret(cid, uid) ==
    IF FirstSource(cid, uid) = 0 THEN 0 ELSE Len(contents) + 1

\* Mutant of HasText: the length of the text is not checked
HasText_not_none(text) == text # NULL

\* TelegramCollector.process_message: whether the message is stored
HasText(text) == text # NULL /\ Len(text) > 0

\* rec: whether the call is recorded in last
AddSource(cid, uid, rec) ==
    /\ Len(add_source(cid, uid)) <= MaxSources
    /\ sources' = add_source(cid, uid)
    /\ last' = IF rec THEN Call("add_source", cid, uid, NULL, add_source_ret(cid, uid))
               ELSE NoEvent
    /\ UNCHANGED <<collectors, procs, contents, requirements, results, queue, deployed, registry,
                   worker>>

\* A collector calling add_content directly
AddContent(cid, uid, text) ==
    /\ Len(add_content(cid, uid, text)) <= MaxContent
    /\ contents' = add_content(cid, uid, text)
    /\ last' = Call("add_content", cid, uid, text, add_content_ret(cid, uid))
    /\ UNCHANGED <<collectors, procs, sources, requirements, results, queue, deployed, registry,
                   worker>>

ProcessMessage(cid, uid, text, rec) ==
    /\ last' = IF rec
               THEN Call("process_message", cid, uid, text,
                         IF HasText(text) THEN add_content_ret(cid, uid) ELSE 0)
               ELSE NoEvent
    /\ IF HasText(text)
       THEN /\ Len(add_content(cid, uid, text)) <= MaxContent
            /\ contents' = add_content(cid, uid, text)
            /\ IF add_content_ret(cid, uid) # 0
               THEN /\ BagCardinality(queue) < MaxQueue
                    /\ queue' = send_task(queue, "translate",
                                          add_content_ret(cid, uid), "pipeline")
               ELSE UNCHANGED queue
       ELSE UNCHANGED <<contents, queue>>
    /\ UNCHANGED <<collectors, procs, sources, requirements, results, deployed, registry, worker>>

\* ------------------------------------------------------------------------ *\
\* Collector processes: start-up, and add_source as the two statements of its
\* transaction (collection/collector.py)

CollectorModel(short_name) == [short_name |-> short_name, enabled |-> TRUE]

\* session.query(CollectorModel).filter_by(short_name).first(): the id of the
\* first matching row, 0 for None
FirstCollector(short_name) ==
    LET m == {i \in 1..Len(collectors) : collectors[i].short_name = short_name}
    IN  IF m = {} THEN 0 ELSE CHOOSE i \in m : \A j \in m : i <= j

\* Mutant of register_collector: the row is added without the lookup
register_collector_always(short_name) ==
    Append(collectors, CollectorModel(short_name))

\* Collector._register_collector: the table after the call
register_collector(short_name) ==
    IF FirstCollector(short_name) = 0
    THEN Append(collectors, CollectorModel(short_name))
    ELSE collectors

\* Collector._get_collector_id on table tbl
get_collector_id(tbl, short_name) ==
    LET m == {i \in 1..Len(tbl) : tbl[i].short_name = short_name}
    IN  IF m = {} THEN 0 ELSE CHOOSE i \in m : \A j \in m : i <= j

\* Collector.__init__ of process p, which is down or restarts between two
\* calls; start-ups follow one another
Startup(p, short_name) ==
    /\ procs[p].pc \in {"down", "idle"}
    /\ Len(register_collector(short_name)) <= MaxCollectors
    /\ collectors' = register_collector(short_name)
    /\ procs' = [procs EXCEPT ![p] =
                    [DownProc EXCEPT !.pc = "idle", !.short_name = short_name,
                                     !.collector_id =
                                        get_collector_id(collectors', short_name)]]
    /\ last' = Call("startup", procs'[p].collector_id, short_name, NULL,
                    FirstCollector(short_name))
    /\ UNCHANGED <<sources, contents, requirements, results, queue, deployed,
                   registry, worker>>

\* An operator toggles Collector.enabled
OperatorSetCollectorEnabled(c, b) ==
    /\ c \in 1..Len(collectors)
    /\ collectors[c].enabled # b
    /\ collectors' = [collectors EXCEPT ![c].enabled = b]
    /\ last' = NoEvent
    /\ UNCHANGED <<sources, contents, requirements, results, queue, deployed,
                   registry, worker, procs>>

\* add_source of process p, first statement: the lookup of (uid, collector_id)
\* in the transaction the call opens
AddSourceLookup(p, uid) ==
    /\ procs[p].pc = "idle"
    /\ procs' = [procs EXCEPT ![p].pc = "insert", ![p].uid = uid,
                              ![p].existing =
                                 FirstSource(procs[p].collector_id, uid)]
    /\ last' = NoEvent
    /\ UNCHANGED <<sources, contents, requirements, results, queue, deployed,
                   registry, worker, collectors>>

\* add_source of process p, the rest: the row is added and committed when the
\* lookup found none; no constraint of the table refuses it
AddSourceCommit(p) ==
    /\ procs[p].pc = "insert"
    /\ IF procs[p].existing = 0
       THEN /\ Len(sources) < MaxSources
            /\ sources' = Append(sources,
                                 SourceModel(procs[p].collector_id, procs[p].uid))
            /\ last' = Call("add_source", procs[p].collector_id, procs[p].uid,
                            NULL, Len(sources) + 1)
       ELSE /\ UNCHANGED sources
            /\ last' = Call("add_source", procs[p].collector_id, procs[p].uid,
                            NULL, 0)
    /\ procs' = [procs EXCEPT ![p].pc = "idle", ![p].uid = NULL,
                              ![p].existing = 0]
    /\ UNCHANGED <<contents, requirements, results, queue, deployed, registry,
                   worker, collectors>>

\* ------------------------------------------------------------------------ *\
\* Database.set_content_attribute called with any content id and attribute
\* name (shared/database.py)

\* The attributes hasattr finds on a Content row, as far as the rows of the
\* model carry them
ContentAttributes ==
    {"source_id", "original_text", "translated_text", "translated", "analysed"}

\* Attribute names of the calls: two the row has, one it has not
AttributeNames == {"original_text", "translated_text", "summary"}

\* Mutant of set_content_attribute_outcome: a missing row is passed over
set_content_attribute_outcome_silent(tbl, c, attr) ==
    IF c \notin 1..Len(tbl) THEN "None"
    ELSE IF attr \notin ContentAttributes THEN "AttributeError"
    ELSE "None"

\* Database.set_content_attribute: the exception it raises, "None" when it
\* returns
set_content_attribute_outcome(tbl, c, attr) ==
    IF c \notin 1..Len(tbl) THEN "ContentNotFoundError"
    ELSE IF attr \notin ContentAttributes THEN "AttributeError"
    ELSE "None"

\* Database.set_content_attribute in its session_scope: the table after the
\* call; an exception rolls the session back, which had written nothing
set_content_attribute_commit(tbl, c, attr, value) ==
    IF set_content_attribute_outcome(tbl, c, attr) = "None"
    THEN set_content_attribute(tbl, c, attr, value)
    ELSE tbl

\* The record of a call of the database layer: the content id in task.cid,
\* the attribute name in uid, the value in text
DbCall(op, c, attr, value, outcome) ==
    [NoEvent EXCEPT !.op = op, !.task = Task(op, c, "external"), !.uid = attr,
                    !.text = value, !.result = outcome]

SetContentAttribute(c, attr, value) ==
    /\ contents' = set_content_attribute_commit(contents, c, attr, value)
    /\ last' = DbCall("set_content_attribute", c, attr, value,
                      set_content_attribute_outcome(contents, c, attr))
    /\ UNCHANGED <<collectors, procs, sources, requirements, results, queue,
                   deployed, registry, worker>>

\* ------------------------------------------------------------------------ *\
\* Out-of-band configuration by an operator, and the broker

OperatorSetSourceEnabled(s, b) ==
    /\ s \in 1..Len(sources)
    /\ sources[s].enabled # b
    /\ sources' = [sources EXCEPT ![s].enabled = b]
    /\ last' = NoEvent
    /\ UNCHANGED <<collectors, procs, contents, requirements, results, queue, deployed, registry,
                   worker>>

OperatorAddRequirement(s, llm, prompt) ==
    /\ s \in 1..Len(sources)
    /\ Len(requirements) < MaxReqs
    /\ requirements' = Append(requirements, AnalysisRequirementModel(s, llm, prompt))
    /\ last' = NoEvent
    /\ UNCHANGED <<collectors, procs, sources, contents, results, queue, deployed, registry,
                   worker>>

OperatorSetRequirementEnabled(r, b) ==
    /\ r \in 1..Len(requirements)
    /\ requirements[r].enabled # b
    /\ requirements' = [requirements EXCEPT ![r].enabled = b]
    /\ last' = NoEvent
    /\ UNCHANGED <<collectors, procs, sources, contents, results, queue, deployed, registry,
                   worker>>

\* A task submitted by a client other than the pipeline
ExternalSubmit(kind, c) ==
    /\ BagCardinality(queue) < MaxQueue
    /\ queue' = send_task(queue, kind, c, "external")
    /\ last' = NoEvent
    /\ UNCHANGED <<collectors, procs, sources, contents, requirements, results, deployed, registry,
                   worker>>

\* At-least-once delivery: the broker delivers again the task a worker is
\* running, or the task that raised
Redeliver(t) ==
    /\ \/ \E w \in Workers : worker[w].pc # "idle" /\ worker[w].task = t
       \/ last.task = t /\ Raised(last.result)
    /\ BagCardinality(queue) < MaxQueue
    /\ queue' = queue (+) SetToBag({t})
    /\ last' = NoEvent
    /\ UNCHANGED <<collectors, procs, sources, contents, requirements, results, deployed, registry,
                   worker>>

\* ------------------------------------------------------------------------ *\
\* translate_content (workers/tasks/translate.py)

\* Lines 39-71: the task starts, reads original_text, loads and resolves the
\* provider and calls it. o is what the provider call produces.
TranslateBegin(w, t, o) ==
    LET cid == t.cid
        reg == load_translation_services(registry[w].translation,
                                         deployed.translation)
        cls == get_service(reg, ServiceId)
        me  == Started(t)
    IN
    /\ worker[w].pc = "idle"
    /\ t.kind = "translate"
    /\ BagIn(t, queue)
    /\ queue' = queue (-) SetToBag({t})
    /\ IF ~ContentExists(cid)
       THEN \* get_content_attribute raises
            /\ o = NULL
            /\ last' = Finished(me, "ContentNotFoundError")
            /\ UNCHANGED <<registry, worker>>
       ELSE IF contents[cid].original_text = NULL
       THEN \* original_text[:80] on None
            /\ o = NULL
            /\ last' = Finished(me, "TypeError")
            /\ UNCHANGED <<registry, worker>>
       ELSE LET read == [me EXCEPT !.text = contents[cid].original_text]
                m    == [read EXCEPT !.out = o, !.calls = <<0>>]
            IN
            /\ registry' = [registry EXCEPT ![w].translation = reg]
            /\ IF cls = NULL
               THEN \* get_service(..)() calls None
                    /\ o = NULL
                    /\ last' = Finished(read, "TypeError")
                    /\ UNCHANGED worker
               ELSE /\ o \in translate(cls)
                    /\ IF o \in TranslateRaises
                       THEN last' = Finished(m, o) /\ UNCHANGED worker
                       ELSE IF Falsy(o)
                       THEN last' = Finished(m, "False") /\ UNCHANGED worker
                       ELSE IF o = DICT
                       THEN \* translated_text[:80] on a dict
                            last' = Finished(m, "TypeError") /\ UNCHANGED worker
                       ELSE /\ worker' = [worker EXCEPT ![w] =
                                             [m EXCEPT !.pc = "persist"]]
                            /\ last' = NoEvent
    /\ UNCHANGED <<collectors, procs, sources, contents, requirements, results, deployed>>

\* Lines 73-75: the translated text is stored, in its own transaction
TranslatePersist(w) ==
    /\ worker[w].pc = "persist"
    /\ contents' = set_content_attribute(contents, worker[w].task.cid,
                                         "translated_text", worker[w].out)
    /\ worker' = [worker EXCEPT ![w].pc = "emit", ![w].wrote = @ + 1]
    /\ last' = NoEvent
    /\ UNCHANGED <<collectors, procs, sources, requirements, results, queue, deployed, registry>>

\* Lines 77-88: the analyse-task is sent and the task returns True
TranslateEmit(w) ==
    LET me == worker[w] IN
    /\ me.pc = "emit"
    /\ BagCardinality(queue) < MaxQueue
    /\ queue' = send_task(queue, "analyse", me.task.cid, "pipeline")
    /\ last' = Finished([me EXCEPT !.sent = Append(@, me.task.cid)], "True")
    /\ worker' = [worker EXCEPT ![w] = IdleWorker]
    /\ UNCHANGED <<collectors, procs, sources, contents, requirements, results, deployed, registry>>

\* ------------------------------------------------------------------------ *\
\* analyse_content (workers/tasks/analyse.py)

\* The dict of one requirement as get_analysis_requirements returns it
Requirement(r) ==
    [req_id |-> r, llm_id |-> requirements[r].llm_id,
     prompt |-> requirements[r].prompt]

\* Lines 57-77: the task starts, loads the services, reads translated_text
\* and source_id
AnalyseBegin(w, t) ==
    LET cid == t.cid
        me  == Started(t)
    IN
    /\ worker[w].pc = "idle"
    /\ t.kind = "analyse"
    /\ BagIn(t, queue)
    /\ queue' = queue (-) SetToBag({t})
    /\ registry' = [registry EXCEPT ![w].analysis =
                      load_analysis_services(@, deployed.analysis)]
    /\ IF ~ContentExists(cid)
       THEN last' = Finished(me, "ContentNotFoundError") /\ UNCHANGED worker
       ELSE /\ worker' = [worker EXCEPT ![w] =
                [me EXCEPT !.pc = "requirements",
                           !.text = contents[cid].translated_text,
                           !.source_id = contents[cid].source_id]]
            /\ last' = NoEvent
    /\ UNCHANGED <<collectors, procs, sources, contents, requirements, results, deployed>>

\* Mutant of AnalyseRequirements: for a disabled source the task is sent
\* again for a later attempt
AnalyseRequirements_resend(w) ==
    LET me   == worker[w]
        reqs == get_analysis_requirements(me.source_id)
        m    == [me EXCEPT
                    !.reqs = [k \in 1..Len(reqs) |-> Requirement(reqs[k])],
                    !.enabled_at = {r \in 1..Len(requirements) :
                                      /\ requirements[r].source_id = me.source_id
                                      /\ requirements[r].enabled}]
    IN
    /\ me.pc = "requirements"
    /\ IF ~get_source_enabled(me.source_id)
       THEN /\ last' = Finished(me, "None")
            /\ worker' = [worker EXCEPT ![w] = IdleWorker]
            /\ BagCardinality(queue) < MaxQueue
            /\ queue' = send_task(queue, "analyse", me.task.cid, me.task.origin)
       ELSE IF reqs = <<>>
       THEN /\ last' = Finished(m, "True")
            /\ worker' = [worker EXCEPT ![w] = IdleWorker]
            /\ UNCHANGED queue
       ELSE /\ worker' = [worker EXCEPT ![w] = [m EXCEPT !.pc = "loop", !.i = 1]]
            /\ last' = NoEvent
            /\ UNCHANGED queue
    /\ UNCHANGED <<collectors, procs, sources, contents, requirements, results, deployed,
                   registry>>

\* Lines 80-88: the source's enabled flag, then its enabled requirements
AnalyseRequirements(w) ==
    LET me   == worker[w]
        reqs == get_analysis_requirements(me.source_id)
        m    == [me EXCEPT
                    !.reqs = [k \in 1..Len(reqs) |-> Requirement(reqs[k])],
                    !.enabled_at = {r \in 1..Len(requirements) :
                                      /\ requirements[r].source_id = me.source_id
                                      /\ requirements[r].enabled}]
    IN
    /\ me.pc = "requirements"
    /\ IF ~get_source_enabled(me.source_id)
       THEN /\ last' = Finished(me, "None")
            /\ worker' = [worker EXCEPT ![w] = IdleWorker]
       ELSE IF reqs = <<>>
       THEN /\ last' = Finished(m, "True")
            /\ worker' = [worker EXCEPT ![w] = IdleWorker]
       ELSE /\ worker' = [worker EXCEPT ![w] = [m EXCEPT !.pc = "loop", !.i = 1]]
            /\ last' = NoEvent
    /\ UNCHANGED <<collectors, procs, sources, contents, requirements, results, queue, deployed,
                   registry>>

\* Mutant of service_id: the identifier is taken from the requirement's llm_id
service_id_of_llm(req) == IF req.llm_id = 1 THEN ServiceId ELSE "gpt4"

\* Line 95: the identifier the provider of a requirement is looked up by
service_id(req) == ServiceId

\* Lines 91-122: one iteration of the loop over the requirements: resolve the
\* provider, call it, store the result. o is what the provider call produces.
AnalyseStep(w, o) ==
    LET me  == worker[w]
        req == me.reqs[me.i]
        cls == get_service(registry[w].analysis, service_id(req))
        resolved == [me EXCEPT !.services = Append(@, cls)]
        called == [resolved EXCEPT !.calls = Append(@, req.req_id), !.out = o]
        stored == [called EXCEPT !.saved = Append(@, Len(results) + 1)]
    IN
    /\ me.pc = "loop"
    /\ IF cls = NULL
       THEN /\ o = NULL
            /\ last' = Finished(resolved, "False")
            /\ worker' = [worker EXCEPT ![w] = IdleWorker]
            /\ UNCHANGED results
       ELSE /\ o \in analyse(req.prompt, me.text)
            /\ IF Propagates(o)
               THEN /\ last' = Finished(called, o)
                    /\ worker' = [worker EXCEPT ![w] = IdleWorker]
                    /\ UNCHANGED results
               ELSE IF o = DICT
               THEN \* analysis[:80] on a dict
                    /\ last' = Finished(called, "TypeError")
                    /\ worker' = [worker EXCEPT ![w] = IdleWorker]
                    /\ UNCHANGED results
               ELSE /\ Len(results) < MaxResults
                    /\ results' = save_analysis_result(results, me.task.cid,
                                                        req.req_id, o)
                    /\ IF me.i = Len(me.reqs)
                       THEN /\ last' = Finished(stored, "True")
                            /\ worker' = [worker EXCEPT ![w] = IdleWorker]
                       ELSE /\ worker' = [worker EXCEPT ![w] =
                                             [stored EXCEPT !.i = @ + 1]]
                            /\ last' = NoEvent
    /\ UNCHANGED <<collectors, procs, sources, contents, requirements, queue, deployed, registry>>

\* ------------------------------------------------------------------------ *\

Tasks == {Task(k, c, o) : k \in {"translate", "analyse"}, c \in 1..MaxContent,
                          o \in {"pipeline", "external"}}

ProviderOutcomes ==
    {NULL, "", DICT, "out", "ValueError"} \cup Translations
        \cup TranslateRaises \cup AnalyseRaises

\* The deployed program: the Telegram collector, the operator, the broker
\* and one worker process
Next ==
    \/ \E uid \in Uids : AddSource(TelegramId, uid, FALSE)
    \/ \E uid \in Uids, text \in MessageTexts : ProcessMessage(TelegramId, uid, text, FALSE)
    \/ \E s \in 1..MaxSources, b \in BOOLEAN : OperatorSetSourceEnabled(s, b)
    \/ \E s \in 1..MaxSources, llm \in LlmIds, p \in Prompts :
          OperatorAddRequirement(s, llm, p)
    \/ \E r \in 1..MaxReqs, b \in BOOLEAN : OperatorSetRequirementEnabled(r, b)
    \/ \E k \in {"translate", "analyse"}, c \in 1..MaxContent : ExternalSubmit(k, c)
    \/ \E t \in Tasks : Redeliver(t)
    \/ \E t \in Tasks, o \in ProviderOutcomes : TranslateBegin(Worker1, t, o)
    \/ TranslatePersist(Worker1)
    \/ TranslateEmit(Worker1)
    \/ \E t \in Tasks : AnalyseBegin(Worker1, t)
    \/ AnalyseRequirements(Worker1)
    \/ \E o \in ProviderOutcomes : AnalyseStep(Worker1, o)

Spec == Init /\ [][Next]_vars

\* The collector interface alone, called by collectors of two types
CollectorNext ==
    \/ \E cid \in CollectorIds, uid \in Uids : AddSource(cid, uid, TRUE)
    \/ \E cid \in CollectorIds, uid \in Uids, text \in MessageTexts :
          AddContent(cid, uid, text)
    \/ \E cid \in CollectorIds, uid \in Uids, text \in MessageTexts :
          ProcessMessage(cid, uid, text, TRUE)

CollectorSpec == Init /\ [][CollectorNext]_vars

\* The Telegram collector filling the store, and calls of
\* set_content_attribute with stored and unknown ids and attribute names
DatabaseNext ==
    \/ \E uid \in Uids : AddSource(TelegramId, uid, FALSE)
    \/ \E uid \in Uids, text \in MessageTexts :
          ProcessMessage(TelegramId, uid, text, FALSE)
    \/ \E c \in 1..(MaxContent + 1), attr \in AttributeNames,
          value \in {NULL} \cup Translations : SetContentAttribute(c, attr, value)

DatabaseSpec == Init /\ [][DatabaseNext]_vars

\* Collector processes of two types starting, restarting and registering the
\* channels they find, while an operator disables and enables collectors
StartupNext ==
    \/ \E p \in Procs, n \in ShortNames : Startup(p, n)
    \/ \E c \in 1..MaxCollectors, b \in BOOLEAN : OperatorSetCollectorEnabled(c, b)
    \/ \E p \in Procs, uid \in Uids : AddSourceLookup(p, uid)
    \/ \E p \in Procs : AddSourceCommit(p)

StartupSpec == Init /\ [][StartupNext]_vars

\* One worker on the messages of one channel whose requirements differ in
\* llm_id only
SelectionNext ==
    \/ AddSource(TelegramId, "a", FALSE)
    \/ ProcessMessage(TelegramId, "a", "fr", FALSE)
    \/ \E llm \in AllLlmIds : OperatorAddRequirement(1, llm, "p")
    \/ \E r \in 1..MaxReqs, b \in BOOLEAN : OperatorSetRequirementEnabled(r, b)
    \/ \E t \in Tasks, o \in ProviderOutcomes : TranslateBegin(Worker1, t, o)
    \/ TranslatePersist(Worker1)
    \/ TranslateEmit(Worker1)
    \/ \E t \in Tasks : AnalyseBegin(Worker1, t)
    \/ AnalyseRequirements(Worker1)
    \/ \E o \in ProviderOutcomes : AnalyseStep(Worker1, o)

SelectionSpec == Init /\ [][SelectionNext]_vars

\* Two worker processes on the messages of one channel: the broker may
\* deliver a task again while a worker runs it, so that both workers execute
\* the same task at the same time
WorkersNext ==
    \/ AddSource(TelegramId, "a", FALSE)
    \/ \E text \in MessageTexts : ProcessMessage(TelegramId, "a", text, FALSE)
    \/ OperatorAddRequirement(1, 1, "p")
    \/ \E t \in Tasks : Redeliver(t)
    \/ \E w \in Workers :
          \/ \E t \in Tasks, o \in ProviderOutcomes : TranslateBegin(w, t, o)
          \/ TranslatePersist(w)
          \/ TranslateEmit(w)
          \/ \E t \in Tasks : AnalyseBegin(w, t)
          \/ AnalyseRequirements(w)
          \/ \E o \in ProviderOutcomes : AnalyseStep(w, o)

WorkersSpec == Init /\ [][WorkersNext]_vars

\* The store after the collector has registered two channels and stored a
\* message of each, with a requirement for each channel: the translate-task
\* of content k is on the broker, the other content d is untranslated (its
\* task returned False), or translated, or translated and analysed
StoreOfTwo ==
    /\ sources = <<SourceModel(TelegramId, "a"), SourceModel(TelegramId, "b")>>
    /\ requirements = <<AnalysisRequirementModel(1, 1, "p"),
                        AnalysisRequirementModel(2, 1, "p")>>
    /\ \E k \in 1..2 :
          LET d == 3 - k IN
          /\ queue = SetToBag({Task("translate", k, "pipeline")})
          /\ \E tr \in {NULL} \cup Translations :
                /\ contents = [c \in 1..2 |->
                      [ContentModel(c, "fr") EXCEPT
                          !.translated_text = IF c = d THEN tr ELSE NULL]]
                /\ results \in
                      {<<>>} \cup
                      (IF tr = NULL THEN {}
                       ELSE {<<AnalysisResultModel(d, d, "out")>>})
    /\ deployed \in {[translation |-> TranslationModules,
                       analysis |-> AnalysisModules],
                      [translation |-> {"deepl"}, analysis |-> {}]}
    /\ registry = [w \in Workers |->
                     [translation |-> EmptyRegistry, analysis |-> EmptyRegistry]]
    /\ worker = [w \in Workers |-> IdleWorker]
    /\ last = NoEvent
    /\ collectors = <<>>
    /\ procs = [p \in Procs |-> DownProc]

\* The tasks of the stored contents
StoredTasks ==
    {Task(k, c, o) : k \in {"translate", "analyse"}, c \in 1..Len(contents),
                     o \in {"pipeline", "external"}}

\* One worker process on the tasks of two contents, which the broker and
\* other clients may submit again
FrameNext ==
    \/ \E k \in {"translate", "analyse"}, c \in 1..Len(contents) :
          ExternalSubmit(k, c)
    \/ \E t \in StoredTasks : Redeliver(t)
    \/ \E t \in StoredTasks, o \in ProviderOutcomes : TranslateBegin(Worker1, t, o)
    \/ TranslatePersist(Worker1)
    \/ TranslateEmit(Worker1)
    \/ \E t \in StoredTasks : AnalyseBegin(Worker1, t)
    \/ AnalyseRequirements(Worker1)
    \/ \E o \in ProviderOutcomes : AnalyseStep(Worker1, o)

FrameSpec == StoreOfTwo /\ [][FrameNext]_vars

\* One channel, one requirement configured before the first message, and a
\* broker that delivers a task that raised again before anything else
\* happens; the worker takes every task and every step of a running task is
\* taken, and a provider call that can succeed infinitely often does succeed
LiveNext ==
    \/ Raised(last.result) /\ Redeliver(last.task)
    \/ ~Raised(last.result) /\ \E uid \in Uids : AddSource(TelegramId, uid, FALSE)
    \/ ~Raised(last.result) /\ \E uid \in Uids, text \in MessageTexts :
          ProcessMessage(TelegramId, uid, text, FALSE)
    \/ ~Raised(last.result) /\ contents = <<>> /\ requirements = <<>>
          /\ \E s \in 1..MaxSources : OperatorAddRequirement(s, 1, "p")
    \/ ~Raised(last.result) /\ \E t \in Tasks, o \in ProviderOutcomes :
          TranslateBegin(Worker1, t, o)
    \/ ~Raised(last.result) /\ TranslatePersist(Worker1)
    \/ ~Raised(last.result) /\ TranslateEmit(Worker1)
    \/ ~Raised(last.result) /\ \E t \in Tasks : AnalyseBegin(Worker1, t)
    \/ ~Raised(last.result) /\ AnalyseRequirements(Worker1)
    \/ ~Raised(last.result) /\ \E o \in ProviderOutcomes : AnalyseStep(Worker1, o)

LiveFairness ==
    /\ WF_vars(Raised(last.result) /\ Redeliver(last.task))
    /\ SF_vars(~Raised(last.result) /\ \E t \in Tasks, o \in Translations :
                  TranslateBegin(Worker1, t, o))
    /\ WF_vars(~Raised(last.result) /\ TranslatePersist(Worker1))
    /\ WF_vars(~Raised(last.result) /\ TranslateEmit(Worker1))
    /\ WF_vars(~Raised(last.result) /\ \E t \in Tasks : AnalyseBegin(Worker1, t))
    /\ WF_vars(~Raised(last.result) /\ AnalyseRequirements(Worker1))
    /\ SF_vars(~Raised(last.result) /\ AnalyseStep(Worker1, "out"))

LiveSpec == Init /\ [][LiveNext]_vars /\ LiveFairness

\* ------------------------------------------------------------------------ *\
\* The two registries of one process, used directly

RegistryKinds == {"translation", "analysis"}
ServiceIds == {ServiceId, "deepl"}
LookupIds == ServiceIds \cup {"azure"}       \* "azure" is never registered
ServiceClasses == {GPTTranslate, DeepLTranslate, GPTAnalyse}

\* The record of a registry call: op on the registry kind with identifier uid;
\* cls is the class registered or the value get_service returned; again is 1
\* when the call registers over what is registered (for register: the
\* identifier had another class, for a loader: the loader has just run)
RegistryCall(op, kind, uid, cls, again) ==
    [NoEvent EXCEPT !.op = op, !.text = kind, !.uid = uid, !.out = cls,
                    !.ret = again]

\* Mutant of RegisterIn: one _registry dict on a common base class
RegisterIn_shared(regs, kind, uid, cls) ==
    [k \in DOMAIN regs |-> register(regs[k], uid, cls)]

\* TranslationService.register / AnalysisService.register: each class has its
\* own _registry dict
RegisterIn(regs, kind, uid, cls) ==
    [regs EXCEPT ![kind] = register(@, uid, cls)]

Register(w, kind, uid, cls) ==
    /\ registry' = [registry EXCEPT ![w] = RegisterIn(@, kind, uid, cls)]
    /\ last' = RegistryCall("register", kind, uid, cls,
                 IF get_service(registry[w][kind], uid) \in {NULL, cls}
                 THEN 0 ELSE 1)
    /\ UNCHANGED <<collectors, procs, sources, contents, requirements, results, queue, deployed,
                   worker>>

Resolve(w, kind, uid) ==
    /\ last' = RegistryCall("get_service", kind, uid,
                            get_service(registry[w][kind], uid), 0)
    /\ UNCHANGED <<collectors, procs, sources, contents, requirements, results, queue, deployed,
                   registry, worker>>

\* The loaders the tasks call at every execution
LoadTranslationServices(w) ==
    /\ registry' = [registry EXCEPT ![w].translation =
                      load_translation_services(@, deployed.translation)]
    /\ last' = RegistryCall("load", "translation", NULL, NULL,
                 IF last.op = "load" /\ last.text = "translation" THEN 1 ELSE 0)
    /\ UNCHANGED <<collectors, procs, sources, contents, requirements, results, queue, deployed,
                   worker>>

LoadAnalysisServices(w) ==
    /\ registry' = [registry EXCEPT ![w].analysis =
                      load_analysis_services(@, deployed.analysis)]
    /\ last' = RegistryCall("load", "analysis", NULL, NULL,
                 IF last.op = "load" /\ last.text = "analysis" THEN 1 ELSE 0)
    /\ UNCHANGED <<collectors, procs, sources, contents, requirements, results, queue, deployed,
                   worker>>

RegistryNext ==
    \/ \E k \in RegistryKinds, u \in ServiceIds, c \in ServiceClasses :
          Register(Worker1, k, u, c)
    \/ \E k \in RegistryKinds, u \in LookupIds : Resolve(Worker1, k, u)
    \/ LoadTranslationServices(Worker1)
    \/ LoadAnalysisServices(Worker1)

RegistrySpec == Init /\ [][RegistryNext]_vars

\* ------------------------------------------------------------------------ *\
\* Properties

\* The execution the last step completed
Completed(kind) == last.op = kind
Succeeded(kind) == last.op = kind /\ last.result = "True"

\* The pipeline's analyse-task for content c
AnalyseTask(c) == Task("analyse", c, "pipeline")

\* The number of analyse-task messages for content c on the broker
AnalyseCopies(q, c) ==
    CopiesIn(AnalyseTask(c), q) + CopiesIn(Task("analyse", c, "external"), q)

\* C1: after every successful execution of translate_content on content c,
\* row c has a non-null translated_text and translated = TRUE.
C1_TranslatedFlagSet ==
    Succeeded("translate") =>
        /\ contents[last.task.cid].translated_text # NULL
        /\ contents[last.task.cid].translated = TRUE

\* C2: the step that completes a successful execution of translate_content on
\* c puts exactly one more message on the broker, the analyse-task for c, and
\* it is the only task the execution sent; the step that completes an
\* execution that did not succeed adds no analyse-task, and the execution
\* sent none.
C2_OneAnalyseTaskOnSuccess ==
    [][ Completed("translate")' =>
          IF last'.result = "True"
          THEN /\ last'.sent = <<last'.task.cid>>
               /\ queue' = queue (+) SetToBag({AnalyseTask(last'.task.cid)})
          ELSE /\ last'.sent = <<>>
               /\ \A c \in 0..(MaxContent + 1) :
                     AnalyseCopies(queue', c) = AnalyseCopies(queue, c)
      ]_vars

C2_Witness ==
    /\ Succeeded("translate")
    /\ last.sent = <<last.task.cid>>
    /\ BagIn(AnalyseTask(last.task.cid), queue)

\* C3: an analyse-task of the pipeline is on the broker only for a content
\* whose translated_text is committed, and every execution of analyse_content
\* started from such a task has read a non-null translated_text.
C3_EnqueuedAfterCommit ==
    /\ \A t \in BagToSet(queue) :
          (t.kind = "analyse" /\ t.origin = "pipeline") =>
              /\ ContentExists(t.cid)
              /\ contents[t.cid].translated_text # NULL
    /\ \A w \in Workers :
          (worker[w].task.kind = "analyse" /\ worker[w].task.origin = "pipeline") =>
              worker[w].text # NULL
    /\ (Completed("analyse") /\ last.task.origin = "pipeline") => last.text # NULL

C3_Witness ==
    \E w \in Workers :
        /\ worker[w].pc = "loop"
        /\ worker[w].task.origin = "pipeline"
        /\ worker[w].text \in Translations
        /\ contents[worker[w].task.cid].translated_text \in Translations

\* C4 as stated: a call of add_content with an empty or null text creates no
\* Content row and enqueues no translate-task.
C4_AddContentRejectsEmptyText ==
    [][ (last'.op = "add_content" /\ Falsy(last'.text)) =>
            (contents' = contents /\ queue' = queue) ]_vars

\* C4 as amended: a message whose text is empty or null is not passed to
\* add_content by process_message: no Content row is created, no
\* translate-task is enqueued and nothing is returned; add_content itself
\* stores the text it is given for a known source, whatever the text, and
\* never enqueues a task.
C4_ProcessMessageSkipsEmptyText ==
    [][ /\ (last'.op = "process_message" /\ Falsy(last'.text)) =>
              (contents' = contents /\ queue' = queue /\ last'.ret = 0)
        /\ last'.op = "add_content" =>
              /\ queue' = queue
              /\ FirstSource(last'.collector_id, last'.uid) # 0 =>
                    /\ last'.ret = Len(contents) + 1
                    /\ contents' = Append(contents,
                          ContentModel(FirstSource(last'.collector_id, last'.uid),
                                       last'.text))
      ]_vars

C4_Witness ==
    /\ last.op = "process_message"
    /\ last.text = ""
    /\ FirstSource(last.collector_id, last.uid) # 0
    /\ Len(contents) < MaxContent
    /\ queue = EmptyBag

\* C5: a fully successful execution of analyse_content on content c appends
\* exactly one AnalysisResult row per requirement that was enabled for c's
\* source when the execution read them: N rows for N requirements, each with
\* content_id = c, with pairwise distinct req_id values that are exactly the
\* N enabled requirement ids.
C5_OneResultPerEnabledRequirement ==
    Succeeded("analyse") =>
        /\ Len(last.saved) = Cardinality(last.enabled_at)
        /\ \A k \in 1..Len(last.saved) :
              /\ last.saved[k] \in 1..Len(results)
              /\ results[last.saved[k]].content_id = last.task.cid
        /\ {results[last.saved[k]].req_id : k \in 1..Len(last.saved)}
              = last.enabled_at
        /\ \A j, k \in 1..Len(last.saved) :
              j # k => /\ last.saved[j] # last.saved[k]
                       /\ results[last.saved[j]].req_id
                             # results[last.saved[k]].req_id

C5_Witness ==
    /\ Succeeded("analyse")
    /\ Len(last.saved) = 2
    /\ results[last.saved[1]].req_id # results[last.saved[2]].req_id
    /\ last.enabled_at = {1, 2}

\* C6: when the source of content c is disabled at the time analyse_content
\* checks it, the execution appends no AnalysisResult row, calls no analysis
\* provider and returns (None) without raising.
C6_DisabledSourceSkipped ==
    [][ \A w \in Workers :
          ( /\ worker[w].pc = "requirements"
            /\ worker'[w].pc # "requirements"
            /\ ~sources[worker[w].source_id].enabled ) =>
              /\ Completed("analyse")'
              /\ last'.task = worker[w].task
              /\ last'.result = "None"
              /\ last'.calls = <<>>
              /\ last'.saved = <<>>
              /\ results' = results
      ]_vars

C6_Witness ==
    /\ Completed("analyse")
    /\ last.result = "None"
    /\ ~sources[contents[last.task.cid].source_id].enabled
    /\ \E r \in 1..Len(requirements) :
          /\ requirements[r].source_id = contents[last.task.cid].source_id
          /\ requirements[r].enabled
    /\ contents[last.task.cid].translated_text \in Translations

\* C7: after any sequence of add_source calls there is at most one Source row
\* per (collector_id, uid), and a call for a pair that is already registered
\* adds no row and returns None, the 'already exists' signal.
C7_AddSourceIdempotent ==
    /\ \A i, j \in 1..Len(sources) :
          (sources[i].collector_id = sources[j].collector_id
              /\ sources[i].uid = sources[j].uid) => i = j
    /\ last.op = "add_source" =>
          /\ FirstSource(last.collector_id, last.uid) # 0
          /\ last.ret # 0 => /\ last.ret = Len(sources)
                             /\ FirstSource(last.collector_id, last.uid) = last.ret

C7_Witness ==
    /\ last.op = "add_source"
    /\ last.ret = 0
    /\ Len(sources) = 1

\* What the translation provider did in the execution the last step completed
TranslationProviderFailed ==
    /\ Completed("translate")
    /\ last.calls = <<0>>
    /\ last.out \in TranslateRaises \/ Falsy(last.out)

\* C8: when the translation provider fails (it returns no translation or it
\* raises), nothing is persisted, no analyse-task is enqueued and the
\* execution is reported to the queue as failed (it raises).
C8_ProviderFailureRaises ==
    TranslationProviderFailed =>
        /\ last.wrote = 0
        /\ last.sent = <<>>
        /\ Raised(last.result)

\* The error outcomes of the execution the last step completed: the content
\* was not found, the provider could not be resolved when the execution
\* needed it, or the provider failed
ContentNotFound ==
    last.op \in {"translate", "analyse"} /\ ~ContentExists(last.task.cid)

ProviderUnresolved ==
    \/ /\ Completed("translate")
       /\ ContentExists(last.task.cid)
       /\ contents[last.task.cid].original_text # NULL
       /\ get_service(load_translation_services(EmptyRegistry,
                         deployed.translation), ServiceId) = NULL
    \/ /\ Completed("analyse")
       /\ last.reqs # <<>>
       /\ get_service(load_analysis_services(EmptyRegistry,
                         deployed.analysis), ServiceId) = NULL

AnalysisProviderFailed ==
    /\ Completed("analyse")
    /\ last.calls # <<>>
    /\ last.out \in AnalyseRaises \cup {"ValueError"}

\* C9: every error outcome of a stage execution other than the
\* source-disabled skip reaches the queue as a task failure: the task raises.
C9_ErrorsPropagate ==
    ( \/ ContentNotFound
      \/ ProviderUnresolved
      \/ TranslationProviderFailed
      \/ AnalysisProviderFailed ) => Raised(last.result)

\* The requirement ids of a worker's snapshot
ReqIds(me) == [k \in 1..Len(me.reqs) |-> me.reqs[k].req_id]

\* What the provider call of the step produced for worker w
StepOutcome(w) == IF worker[w].pc = "idle" THEN last.out ELSE worker[w].out

\* C10: the requirements are processed in order from the first (so a retry
\* starts again from the first), and if the provider fails on the k-th
\* requirement the execution ends there and raises: no later requirement is
\* processed, no row is stored for the k-th, and the rows stored for the first
\* k-1 requirements stay in the store.
C10_FailFast ==
    /\ [](\A w \in Workers :
            worker[w].pc = "loop" =>
                /\ Len(worker[w].calls) = worker[w].i - 1
                /\ Len(worker[w].saved) = worker[w].i - 1
                /\ worker[w].calls = SubSeq(ReqIds(worker[w]), 1, worker[w].i - 1))
    /\ [][ \A w \in Workers :
             ( /\ worker[w].pc = "loop"
               /\ worker'[w] # worker[w]
               /\ get_service(registry[w].analysis, ServiceId) # NULL
               /\ StepOutcome(w)' \in AnalyseRaises \cup {"ValueError"} ) =>
                 /\ worker'[w].pc = "idle"
                 /\ Completed("analyse")'
                 /\ Raised(last'.result)
                 /\ last'.calls = SubSeq(ReqIds(worker[w]), 1, worker[w].i)
                 /\ last'.saved = worker[w].saved
                 /\ results' = results
                 /\ \A k \in 1..Len(worker[w].saved) :
                       /\ results[worker[w].saved[k]].req_id
                             = worker[w].reqs[k].req_id
                       /\ results[worker[w].saved[k]].content_id
                             = worker[w].task.cid
         ]_vars

C10_Witness ==
    /\ Completed("analyse")
    /\ last.result = "AnalysisException"
    /\ Len(last.calls) = 2
    /\ last.saved = <<2>>
    /\ results[1].req_id = results[2].req_id
    /\ results[1].content_id = last.task.cid

\* The ids saved so far by the execution worker w runs, or by the execution
\* the step completed
SavedBy(w) == IF worker[w].pc = "idle" THEN last.saved ELSE worker[w].saved

\* C11: AnalysisResult is append-only: every step keeps the existing rows as
\* they are and in place, a step in which an execution saves a result adds
\* one new row at the end of the table, and a fully successful execution has
\* added one new row per enabled requirement, so that k such executions with
\* N requirements leave k*N rows: a row of the same content and requirement
\* is never overwritten or deduplicated.
C11_ResultsAppendOnly ==
    /\ [](Succeeded("analyse") =>
            /\ Len(last.saved) = Cardinality(last.enabled_at)
            /\ \A k \in 1..Len(last.saved) : last.saved[k] \in 1..Len(results)
            /\ \A j, k \in 1..Len(last.saved) :
                  j < k => last.saved[j] < last.saved[k])
    /\ [][ /\ Len(results') >= Len(results)
           /\ SubSeq(results', 1, Len(results)) = results
           /\ \A w \in Workers :
                 (worker[w].pc = "loop" /\ SavedBy(w)' # worker[w].saved) =>
                     /\ SavedBy(w)' = Append(worker[w].saved, Len(results) + 1)
                     /\ Len(results') = Len(results) + 1
         ]_vars

C11_Witness ==
    /\ Succeeded("analyse")
    /\ Len(results) = 2
    /\ last.saved = <<2>>
    /\ last.enabled_at = {results[2].req_id}
    /\ results[1].req_id = results[2].req_id
    /\ results[1].content_id = results[2].content_id

\* C12: a Content row's analysed flag is FALSE at creation (in every row
\* add_content builds), it is TRUE after every fully successful execution of
\* analyse_content on the row, and it is TRUE only on a row whose source has
\* a stored result for each of its enabled requirements.
C12_AnalysedFlagSet ==
    /\ \A c \in 1..Len(contents) :
          contents[c].analysed =>
              \A r \in 1..Len(requirements) :
                  (requirements[r].source_id = contents[c].source_id
                      /\ requirements[r].enabled) =>
                      \E k \in 1..Len(results) :
                          results[k].req_id = r /\ results[k].content_id = c
    /\ Succeeded("analyse") => contents[last.task.cid].analysed

\* C13: over a row's lifetime translated_text and translated are set once and
\* for all, also when a translate-task is delivered again and two workers
\* execute it: a translated_text that is not NULL never becomes NULL again,
\* a translated flag that is TRUE never becomes FALSE again, and no row
\* disappears.
C13_TranslatedSetOnce ==
    [][ /\ Len(contents') >= Len(contents)
        /\ \A c \in 1..Len(contents) :
              /\ contents[c].translated_text # NULL =>
                    contents'[c].translated_text # NULL
              /\ contents[c].translated => contents'[c].translated
      ]_vars

C13_Witness ==
    \E w1, w2 \in Workers :
        /\ w1 # w2
        /\ worker[w1].task = worker[w2].task
        /\ worker[w1].task.kind = "translate"
        /\ worker[w1].pc = "emit" /\ worker[w1].wrote = 1
        /\ worker[w2].pc = "emit" /\ worker[w2].wrote = 1
        /\ worker[w1].out # worker[w2].out
        /\ contents[worker[w1].task.cid].translated_text \in Translations

\* C14: original_text is immutable: no step of a translate or analyse
\* execution, of the broker or of a collector changes the original_text of an
\* existing Content row, also when executions are retried or run at the same
\* time.
C14_OriginalTextImmutable ==
    [][ /\ Len(contents') >= Len(contents)
        /\ \A c \in 1..Len(contents) :
              contents'[c].original_text = contents[c].original_text
      ]_vars

C14_Witness ==
    /\ Len(contents) = 1
    /\ contents[1].original_text = "fr"
    /\ contents[1].translated_text \in Translations
    /\ Len(results) >= 1
    /\ worker[Worker1].pc = "emit" /\ worker[Worker1].wrote = 1
    /\ \E w \in Workers : worker[w].pc = "loop"

\* C15: in every reachable state each AnalysisResult row references an
\* existing Content row and an existing AnalysisRequirement row, and the two
\* have the same source_id.
C15_ResultSharesSource ==
    \A k \in 1..Len(results) :
        /\ results[k].content_id \in 1..Len(contents)
        /\ results[k].req_id \in 1..Len(requirements)
        /\ contents[results[k].content_id].source_id
              = requirements[results[k].req_id].source_id

C15_Witness ==
    /\ Succeeded("analyse")
    /\ Len(last.saved) = 1
    /\ \E r \in 1..Len(requirements) :
          /\ requirements[r].enabled
          /\ requirements[r].source_id # contents[last.task.cid].source_id
          /\ requirements[r].source_id \in 1..Len(sources)
          /\ sources[requirements[r].source_id].enabled

\* A Source row of the collector with this uid is in the store
Registered(cid, uid) ==
    \E i \in 1..Len(sources) :
        sources[i].collector_id = cid /\ sources[i].uid = uid

\* C16: a call of add_content, direct or through process_message, with a uid
\* that is not registered for the calling collector returns None (not
\* found), creates no Content row and puts no translate-task on the broker,
\* also when the uid is registered under another collector.
C16_UnknownSourceNotFound ==
    [][ ( /\ last'.op \in {"add_content", "process_message"}
          /\ ~Registered(last'.collector_id, last'.uid) ) =>
            /\ last'.ret = 0
            /\ contents' = contents
            /\ queue' = queue
      ]_vars

C16_Witness ==
    /\ last.op = "process_message"
    /\ last.text = "fr"
    /\ last.ret = 0
    /\ ~Registered(last.collector_id, last.uid)
    /\ \E cid \in CollectorIds : Registered(cid, last.uid)
    /\ contents = <<>>
    /\ queue = EmptyBag

\* The translate-task the collector sends for content c
TranslateTask(c) == Task("translate", c, "pipeline")

\* C17: in the deployed program every step that stores a Content row stores
\* one row, with a non-empty text, and puts exactly one more message on the
\* broker, the translate-task for the new row's id; and a translate-task of
\* the collector is on the broker, or with a worker, only for a Content row
\* that is in the store.
C17_TranslateTaskPerContent ==
    /\ [](/\ \A t \in BagToSet(queue) :
                (t.kind = "translate" /\ t.origin = "pipeline") =>
                    /\ ContentExists(t.cid)
                    /\ HasText(contents[t.cid].original_text)
          /\ \A w \in Workers :
                (worker[w].task.kind = "translate"
                    /\ worker[w].task.origin = "pipeline") =>
                    ContentExists(worker[w].task.cid))
    /\ [][ contents' # contents /\ Len(contents') # Len(contents) =>
              /\ Len(contents') = Len(contents) + 1
              /\ SubSeq(contents', 1, Len(contents)) = contents
              /\ HasText(contents'[Len(contents')].original_text)
              /\ queue' = queue (+) SetToBag({TranslateTask(Len(contents'))})
         ]_vars

C17_Witness ==
    /\ Len(contents) = 1
    /\ contents[1].original_text = "fr"
    /\ contents[1].translated_text = NULL
    /\ queue = SetToBag({TranslateTask(1)})
    /\ \A w \in Workers : worker[w].pc = "idle"

\* What the registry of a kind in the process of Worker1 resolves uid to
Resolved(regs, k, u) == get_service(regs[Worker1][k], u)

\* C18: in each registry get_service returns the class most recently
\* registered under the identifier and None, without raising, for an
\* identifier that was never registered: nothing resolves in a new process,
\* a register call makes its identifier resolve to its class, whatever it
\* resolved to before, and changes no other identifier of the registry, and
\* get_service returns what the identifier resolves to and changes nothing.
C18_LastWriteWins ==
    /\ \A k \in RegistryKinds, u \in LookupIds : Resolved(registry, k, u) = NULL
    /\ [][ /\ last'.op = "register" =>
                /\ Resolved(registry', last'.text, last'.uid) = last'.out
                /\ \A u \in LookupIds \ {last'.uid} :
                      Resolved(registry', last'.text, u)
                          = Resolved(registry, last'.text, u)
           /\ last'.op = "get_service" =>
                /\ last'.out = Resolved(registry, last'.text, last'.uid)
                /\ last'.out \in ServiceClasses \cup {NULL}
                /\ registry' = registry
         ]_vars

C18_Witness ==
    /\ last.op = "register"
    /\ last.ret = 1
    /\ last.text = "translation"
    /\ last.uid = ServiceId
    /\ Resolved(registry, "translation", ServiceId) = DeepLTranslate
    /\ Resolved(registry, "translation", "deepl") = DeepLTranslate
    /\ Resolved(registry, "translation", "azure") = NULL

\* C19: the two registries are independent: a registration in one, by a
\* register call or by its loader, changes nothing the other resolves, also
\* for the identifier both use.
C19_RegistriesIndependent ==
    [][ last'.op \in {"register", "load"} =>
            \A k \in RegistryKinds \ {last'.text}, u \in LookupIds :
                Resolved(registry', k, u) = Resolved(registry, k, u)
      ]_vars

C19_Witness ==
    /\ last.op = "register"
    /\ last.text = "analysis"
    /\ last.uid = ServiceId
    /\ last.out = GPTAnalyse
    /\ Resolved(registry, "analysis", ServiceId) = GPTAnalyse
    /\ Resolved(registry, "translation", ServiceId) = GPTTranslate

\* C20: registration is idempotent: a register call for a pair that is
\* registered leaves the registries as they are, and so does a loader that
\* runs directly after itself.
C20_RegistrationIdempotent ==
    [][ /\ ( /\ last'.op = "register"
             /\ Resolved(registry, last'.text, last'.uid) = last'.out ) =>
                registry' = registry
        /\ ( /\ last'.op = "load"
             /\ last.op = "load"
             /\ last'.text = last.text ) =>
                registry' = registry
      ]_vars

C20_Witness ==
    /\ last.op = "load"
    /\ last.ret = 1
    /\ last.text = "translation"
    /\ deployed.translation = TranslationModules
    /\ registry[Worker1].translation
          = load_translation_services(EmptyRegistry, TranslationModules)
    /\ registry[Worker1].analysis = EmptyRegistry

\* The execution of translate_content the last step completed found its
\* content and its text, and no deployed module registers the identifier
TranslateUnresolved ==
    /\ Completed("translate")
    /\ ContentExists(last.task.cid)
    /\ contents[last.task.cid].original_text # NULL
    /\ get_service(load_translation_services(EmptyRegistry,
                      deployed.translation), ServiceId) = NULL

\* C21: an execution of translate_content whose provider identifier cannot be
\* resolved ends with the ProviderUnavailable error, has written nothing to
\* the Content row and has sent no analyse-task.
C21_UnresolvedIsProviderUnavailable ==
    TranslateUnresolved =>
        /\ last.result = "ProviderUnavailable"
        /\ last.wrote = 0
        /\ last.sent = <<>>

\* C22: a step that completes an execution of translate_content or
\* analyse_content on an identifier with no Content row ends it with
\* ContentNotFoundError, before any provider was called, with no row written
\* in any table and no task sent: the broker only loses the task taken.
C22_ContentNotFound ==
    [][ ( /\ last'.op \in {"translate", "analyse"}
          /\ ~ContentExists(last'.task.cid) ) =>
            /\ last'.result = "ContentNotFoundError"
            /\ last'.calls = <<>>
            /\ last'.wrote = 0 /\ last'.saved = <<>> /\ last'.sent = <<>>
            /\ sources' = sources /\ contents' = contents
            /\ requirements' = requirements /\ results' = results
            /\ queue' = queue (-) SetToBag({last'.task})
            /\ BagIn(last'.task, queue)
      ]_vars

C22_Witness ==
    /\ Completed("analyse")
    /\ last.result = "ContentNotFoundError"
    /\ last.task.cid = 1
    /\ contents = <<>>
    /\ Len(sources) = 1
    /\ Len(requirements) = 1
    /\ deployed.analysis = AnalysisModules

\* The requirement ids the execution worker w runs has called the provider
\* for, or those of the execution the step completed
CallsBy(w) == IF worker[w].pc = "idle" THEN last.calls ELSE worker[w].calls

\* C23: a requirement that is disabled when an execution reads the
\* requirements of its source is excluded: the execution's list holds only
\* rows that are enabled then, it calls the provider and stores a result only
\* for the requirement of its list it has come to, and the step in which a
\* requirement is disabled, like every step, keeps the results stored earlier.
C23_DisabledRequirementExcluded ==
    [][ /\ \A w \in Workers :
              (worker[w].pc = "requirements" /\ worker'[w].pc = "loop") =>
                  \A k \in 1..Len(worker'[w].reqs) :
                      /\ requirements[worker'[w].reqs[k].req_id].enabled
                      /\ requirements[worker'[w].reqs[k].req_id].source_id
                            = worker[w].source_id
        /\ \A w \in Workers :
              (worker[w].pc = "loop" /\ worker'[w] # worker[w]) =>
                  LET r == worker[w].reqs[worker[w].i].req_id IN
                  /\ CallsBy(w)' \in {worker[w].calls, Append(worker[w].calls, r)}
                  /\ results' # results =>
                        /\ Len(results') = Len(results) + 1
                        /\ results'[Len(results')].req_id = r
        /\ \A r \in 1..Len(requirements) :
              (requirements[r].enabled /\ ~requirements'[r].enabled) =>
                  results' = results
        /\ Len(results') >= Len(results)
        /\ SubSeq(results', 1, Len(results)) = results
      ]_vars

C23_Witness ==
    /\ Succeeded("analyse")
    /\ Len(requirements) = 2
    /\ requirements[1].source_id = requirements[2].source_id
    /\ ~requirements[1].enabled
    /\ requirements[2].enabled
    /\ last.calls = <<2>>
    /\ last.saved = <<2>>
    /\ Len(results) = 2
    /\ results[1].req_id = 1
    /\ results[2].req_id = 2

\* C24: analyse_content is terminal: a step of an execution of
\* analyse_content adds no message of any kind to the broker (taking its own
\* task is all it does to the broker), and a completed execution has sent no
\* task, whatever its outcome.
C24_AnalyseTerminal ==
    [][ /\ \A w \in Workers :
              (worker'[w] # worker[w]
                  /\ (worker[w].task.kind = "analyse"
                        \/ worker'[w].task.kind = "analyse")) =>
                  \A t \in BagToSet(queue') : CopiesIn(t, queue') <= CopiesIn(t, queue)
        /\ Completed("analyse")' =>
              /\ last'.sent = <<>>
              /\ \A t \in BagToSet(queue') : CopiesIn(t, queue') <= CopiesIn(t, queue)
      ]_vars

C24_Witness ==
    /\ Succeeded("analyse")
    /\ Len(last.saved) = 2
    /\ queue = EmptyBag
    /\ contents[last.task.cid].translated_text \in Translations

\* The result rows an execution has saved are rows of the store for its
\* content and for the requirements of its list, in order
SavedRows(saved, reqids, cid) ==
    \A k \in 1..Len(saved) :
        /\ saved[k] \in 1..Len(results)
        /\ k <= Len(reqids)
        /\ results[saved[k]].content_id = cid
        /\ results[saved[k]].req_id = reqids[k]

Disjoint(s1, s2) == \A j \in 1..Len(s1), k \in 1..Len(s2) : s1[j] # s2[k]

\* C25: two workers that execute the same task in any interleaving do not
\* disturb each other. translate: a worker whose provider call succeeded
\* stores its own translation over what is there (the last writer wins, and
\* translated_text only ever changes to the value of the worker that writes)
\* and then completes with True having sent its one analyse-task, so the two
\* send two. analyse: a provider call that succeeds adds one row, the rows
\* the two executions save are different rows of the store, each for its
\* content and requirement, so that with N requirements the two leave 2N
\* rows.
C25_ConcurrentRedelivery ==
    /\ [](/\ \A w \in Workers :
                SavedRows(worker[w].saved, ReqIds(worker[w]), worker[w].task.cid)
          /\ last.op = "analyse" => SavedRows(last.saved, last.reqs, last.task.cid)
          /\ \A w1, w2 \in Workers :
                w1 # w2 => Disjoint(worker[w1].saved, worker[w2].saved)
          /\ \A w \in Workers : Disjoint(worker[w].saved, last.saved))
    /\ [][ /\ \A w \in Workers :
                (worker[w].pc = "persist" /\ worker'[w] # worker[w]) =>
                    /\ worker'[w].pc = "emit"
                    /\ contents'[worker[w].task.cid].translated_text
                          = worker[w].out
           /\ \A w \in Workers :
                (worker[w].pc = "emit" /\ worker'[w] # worker[w]) =>
                    /\ last'.task = worker[w].task
                    /\ last'.result = "True"
                    /\ last'.sent = <<worker[w].task.cid>>
                    /\ queue' = queue (+) SetToBag({AnalyseTask(worker[w].task.cid)})
           /\ \A c \in 1..Len(contents) :
                contents'[c].translated_text # contents[c].translated_text =>
                    \E w \in Workers :
                        /\ worker[w].pc = "persist"
                        /\ worker[w].task.cid = c
                        /\ contents'[c].translated_text = worker[w].out
           /\ \A w \in Workers :
                ( /\ worker[w].pc = "loop"
                  /\ worker'[w] # worker[w]
                  /\ StepOutcome(w)' = "out" ) =>
                    /\ Len(results') = Len(results) + 1
                    /\ SavedBy(w)' = Append(worker[w].saved, Len(results'))
                    /\ worker'[w].pc = "idle" => last'.result = "True"
         ]_vars

C25_Witness ==
    \E w \in Workers :
        /\ Succeeded("analyse")
        /\ last.saved = <<1>>
        /\ worker[w].pc = "loop"
        /\ worker[w].task = last.task
        /\ worker[w].reqs # <<>>
        /\ worker[w].reqs[1].req_id = results[1].req_id
        /\ contents[last.task.cid].translated_text \in Translations

\* Content c has its translation and a result for each enabled requirement
\* of its source
Processed(c) ==
    /\ ContentExists(c)
    /\ contents[c].translated_text # NULL
    /\ \A r \in 1..Len(requirements) :
          (requirements[r].source_id = contents[c].source_id
              /\ requirements[r].enabled) =>
              \E k \in 1..Len(results) :
                  results[k].content_id = c /\ results[k].req_id = r

\* C26: when the gpt providers are deployed, a content stored with a
\* non-empty text for a known, enabled source eventually has its
\* translated_text and a result for each enabled requirement of its source.
C26_EventualCompletion ==
    ( /\ Len(contents) = 1
      /\ deployed.translation = TranslationModules
      /\ deployed.analysis = AnalysisModules ) ~> Processed(1)


\* C27: a Collector row is created once per collector type. In every state
\* there is at most one Collector row per short_name, and every running
\* collector process holds the id of the one row of its short_name; a start-up
\* leaves every existing row as it is, disabled rows included, and ends with
\* exactly one row of its short_name; no step removes a row.
C27_CollectorRowOnce ==
    /\ [](/\ \A i, j \in 1..Len(collectors) :
                collectors[i].short_name = collectors[j].short_name => i = j
          /\ \A p \in Procs :
                procs[p].pc # "down" =>
                   /\ procs[p].collector_id \in 1..Len(collectors)
                   /\ collectors[procs[p].collector_id].short_name
                         = procs[p].short_name)
    /\ [][/\ Len(collectors') >= Len(collectors)
          /\ \A i \in 1..Len(collectors) :
                collectors'[i].short_name = collectors[i].short_name
          /\ last'.op = "startup" =>
                /\ \A i \in 1..Len(collectors) : collectors'[i] = collectors[i]
                /\ Cardinality({i \in 1..Len(collectors') :
                                   collectors'[i].short_name = last'.uid}) = 1
         ]_vars

\* Both processes run the same collector type, and the last start-up found
\* the row of its type, which an operator had disabled
C27_Witness ==
    /\ last.op = "startup"
    /\ last.ret # 0
    /\ ~collectors[last.ret].enabled
    /\ \A p \in Procs : procs[p].pc # "down" /\ procs[p].short_name = last.uid
    /\ Len(collectors) = 2

\* C30: add_source calls of two collector processes of one type that
\* interleave never leave two Source rows with the same (collector_id, uid).
C30_InterleavedAddSourceUnique ==
    \A p, q \in Procs :
       (procs[p].pc # "down" /\ procs[q].pc # "down"
           /\ procs[p].collector_id = procs[q].collector_id) =>
          \A uid \in Uids :
             Cardinality({i \in 1..Len(sources) :
                             /\ sources[i].collector_id = procs[p].collector_id
                             /\ sources[i].uid = uid}) <= 1


\* The execution the last step completed called the provider with an empty
\* prompt, or with a translated_text that is empty or null
HitValidationError ==
    /\ Completed("analyse")
    /\ last.calls # <<>>
    /\ \/ Falsy(requirements[last.calls[Len(last.calls)]].prompt)
       \/ Falsy(last.text)

\* C28: an analysis execution that hits a validation error ends with the
\* ValueError, an error outcome; it stored a result for each requirement
\* before the failing one and none for the failing one or a later one, the
\* step in which it ends leaves the results as they are, and no stored result
\* is for a requirement with an empty prompt.
C28_ValidationError ==
    /\ [](/\ HitValidationError =>
                /\ last.result = "ValueError"
                /\ Raised(last.result)
                /\ Len(last.saved) = Len(last.calls) - 1
                /\ \A k \in Len(last.calls)..Len(last.reqs) :
                      \A n \in 1..Len(last.saved) :
                         results[last.saved[n]].req_id # last.reqs[k]
          /\ \A n \in 1..Len(results) :
                ~Falsy(requirements[results[n].req_id].prompt))
    /\ [][(Completed("analyse")' /\ last'.result = "ValueError")
             => results' = results]_vars

\* The second requirement of an execution has an empty prompt: the result of
\* the first is stored, the execution ends with the error
C28_Witness ==
    /\ HitValidationError
    /\ Len(last.calls) = 2
    /\ Len(last.saved) = 1
    /\ Falsy(requirements[last.calls[2]].prompt)
    /\ ~Falsy(last.text)


PipelineTasks == {t \in BagToSet(queue) : t.origin = "pipeline"}

\* C31: every translate-task and analyse-task the pipeline has put on the
\* queue names a content id whose Content row is stored; the pipeline sends no
\* task for an id it has not stored.
C31_PipelineTaskHasContent ==
    \A t \in PipelineTasks :
       /\ t.kind \in {"translate", "analyse"}
       /\ ContentExists(t.cid)
       /\ t.kind = "analyse" => ~Falsy(contents[t.cid].translated_text)

\* The translation stage has sent the analyse-task of a content it translated
C31_Witness ==
    /\ Succeeded("translate")
    /\ last.sent = <<1>>
    /\ AnalyseTask(1) \in PipelineTasks
    /\ ContentExists(1)


\* The content of the task of which this step is a step, 0 when the step is
\* not a step of a task of the given kind: a worker that runs the task moves,
\* a worker takes it, or an execution of it ends in the step it began in
StepOf(kind) ==
    IF \E w \in Workers : worker'[w] # worker[w] /\ worker[w].task.kind = kind
    THEN (CHOOSE t \in {worker[w].task : w \in {x \in Workers :
                   worker'[x] # worker[x] /\ worker[x].task.kind = kind}} :
             TRUE).cid
    ELSE IF \E w \in Workers : worker'[w] # worker[w] /\ worker'[w].task.kind = kind
    THEN (CHOOSE t \in {worker'[w].task : w \in {x \in Workers :
                   worker'[x] # worker[x] /\ worker'[x].task.kind = kind}} :
             TRUE).cid
    ELSE IF last'.op = kind /\ queue' # queue THEN last'.task.cid
    ELSE 0

\* C32: a step of a translation execution on content c changes at most the
\* translated_text and translated fields of row c: every other Content row,
\* every Source, AnalysisRequirement and AnalysisResult row, no row added or
\* removed, and c's source_id, original_text and analysed flag stay as they are.
C32_TranslateFrame ==
    [][StepOf("translate") # 0 =>
          /\ sources' = sources
          /\ requirements' = requirements
          /\ results' = results
          /\ Len(contents') = Len(contents)
          /\ \A c \in 1..Len(contents) :
                IF c = StepOf("translate")
                THEN [contents'[c] EXCEPT !.translated_text = NULL,
                                          !.translated = FALSE]
                        = [contents[c] EXCEPT !.translated_text = NULL,
                                              !.translated = FALSE]
                ELSE contents'[c] = contents[c]
      ]_vars

\* A translation of content 1 is stored while content 2 is translated and
\* analysed: row 2 and its result are as they were
C32_Witness ==
    /\ worker[Worker1].pc = "emit"
    /\ worker[Worker1].task.cid = 1
    /\ contents[1].translated_text = worker[Worker1].out
    /\ contents[2].translated_text \in Translations
    /\ contents[2].translated_text # contents[1].translated_text
    /\ results = <<AnalysisResultModel(2, 2, "out")>>


\* C33: a step of an analysis execution only appends AnalysisResult rows: the
\* rows stored before stay as they are, Source and AnalysisRequirement rows
\* are not modified, no Content row is added or removed and the
\* translated_text and original_text of every Content row stay as they are.
C33_AnalyseFrame ==
    [][StepOf("analyse") # 0 =>
          /\ sources' = sources
          /\ requirements' = requirements
          /\ Len(results') >= Len(results)
          /\ \A n \in 1..Len(results) : results'[n] = results[n]
          /\ \A n \in (Len(results) + 1)..Len(results') :
                results'[n].content_id = StepOf("analyse")
          /\ Len(contents') = Len(contents)
          /\ \A c \in 1..Len(contents) :
                /\ contents'[c].translated_text = contents[c].translated_text
                /\ contents'[c].original_text = contents[c].original_text
      ]_vars

\* The analysis of content 1 has added its result after the result of
\* content 2, which is as it was
C33_Witness ==
    /\ Succeeded("analyse")
    /\ last.task.cid = 1
    /\ last.saved = <<2>>
    /\ results = <<AnalysisResultModel(2, 2, "out"), AnalysisResultModel(1, 1, "out")>>
    /\ contents[1].translated_text \in Translations


\* C34: set_content_attribute on a content id with no row raises
\* ContentNotFoundError, and on a row with an attribute name the row does not
\* have raises AttributeError; in both cases every row of the store is left
\* as it is.
C34_SetAttributeRaises ==
    [][(/\ last'.op = "set_content_attribute"
        /\ \/ ~ContentExists(last'.task.cid)
           \/ last'.uid \notin ContentAttributes) =>
          /\ last'.result = IF ~ContentExists(last'.task.cid)
                            THEN "ContentNotFoundError" ELSE "AttributeError"
          /\ Raised(last'.result)
          /\ contents' = contents
          /\ sources' = sources
          /\ requirements' = requirements
          /\ results' = results
      ]_vars

\* A call on a stored and translated row with an attribute name it does not
\* have has raised
C34_Witness ==
    /\ last.op = "set_content_attribute"
    /\ last.result = "AttributeError"
    /\ ContentExists(last.task.cid)
    /\ last.uid = "summary"
    /\ contents[last.task.cid].translated_text \in Translations

====
